---------------------------- MODULE Spec2Model ----------------------------
(***************************************************************************)
(* Model of the meeting assistant: the SQLite meeting store of bot.py      *)
(* (create_meeting, get_meetings, find_meeting_by_query, the two updates,  *)
(* smart_get_meetings) and the handle_text dispatcher.                     *)
(*                                                                         *)
(* Text is a sequence of symbols.  A symbol is one character (a digit, a   *)
(* dot, a blank, a letter) or one of the words the regular expressions of  *)
(* smart_get_meetings look for, written in Latin transliteration:          *)
(*   "zavtra" = завтра, "segodnya" = сегодня, "posle" = после (so that     *)
(*   <<"posle","zavtra">> is послезавтра and contains завтра), and the     *)
(*   month names of RU_MONTHS ("noyabrya" = ноября, "noyabr" = ноябрь...). *)
(* "R"/"r" stand for a Cyrillic capital/small letter, "Q"/"q" for a Latin  *)
(* one (SQLite's LIKE folds the case of Latin letters only).               *)
(*                                                                         *)
(* A timestamp string is a tuple <<class, year, month, day, hour>> ordered *)
(* lexicographically, the order SQLite uses to compare the TEXT column:    *)
(* class 0 is a string "YYYY-MM-DDTHH:00:00", class 1 a string that is not *)
(* an ISO timestamp and starts with a letter (it sorts after every digit). *)
(***************************************************************************)
EXTENDS Integers, Sequences, FiniteSets, TLC

VARIABLES db, now, req, out

vars == <<db, now, req, out>>

-----------------------------------------------------------------------------
(* Optional values: Python's None against a present value.                 *)

None == [some |-> FALSE, val |-> <<>>]

Some(v) == [some |-> TRUE, val |-> v]

\* Python truthiness of an optional string: None and "" are both falsy.
Truthy(o) == o.some /\ o.val # <<>>

-----------------------------------------------------------------------------
(* Calendar: datetime(...), timedelta(days=n), strftime.                   *)

IsLeap(y) == (y % 4 = 0 /\ y % 100 # 0) \/ y % 400 = 0

DaysInMonth(y, m) ==
    IF m = 2 THEN (IF IsLeap(y) THEN 29 ELSE 28)
    ELSE IF m \in {4, 6, 9, 11} THEN 30 ELSE 31

\* datetime(year, month, day) raises ValueError unless this holds.
ValidDate(y, m, d) == m \in 1..12 /\ d >= 1 /\ d <= DaysInMonth(y, m)

MkDate(y, m, d) == [year |-> y, month |-> m, day |-> d]

NextDay(dt) ==
    IF dt.day < DaysInMonth(dt.year, dt.month)
    THEN MkDate(dt.year, dt.month, dt.day + 1)
    ELSE IF dt.month < 12 THEN MkDate(dt.year, dt.month + 1, 1)
    ELSE MkDate(dt.year + 1, 1, 1)

RECURSIVE AddDays(_, _)
AddDays(dt, n) == IF n = 0 THEN dt ELSE AddDays(NextDay(dt), n - 1)

\* strftime("%Y-%m-%dT00:00:00")
Midnight(dt) == <<0, dt.year, dt.month, dt.day, 0>>

\* strftime("%Y-%m-%dT%H:%M:%S") of the request's clock
Stamp(n) == <<0, n.year, n.month, n.day, n.hour>>

RECURSIVE SeqLess(_, _)
SeqLess(a, b) ==
    IF a = <<>> \/ b = <<>> THEN a = <<>> /\ b # <<>>
    ELSE IF Head(a) # Head(b) THEN Head(a) < Head(b)
    ELSE SeqLess(Tail(a), Tail(b))

\* datetime.fromisoformat(s) raises ValueError unless s is an ISO timestamp.
IsIso(s) == s[1] = 0

-----------------------------------------------------------------------------
(* Text helpers: str.lower, the "in" operator, str.strip.                  *)

LowerChar(c) ==
    IF c = "R" THEN "r" ELSE IF c = "Q" THEN "q"
    ELSE IF c = "Marta" THEN "marta" ELSE c

lower(s) == [i \in 1..Len(s) |-> LowerChar(s[i])]

\* kw in s
Contains(s, kw) ==
    \E i \in 1..(Len(s) - Len(kw) + 1) : SubSeq(s, i, i + Len(kw) - 1) = kw

IsBlank(c) == c = " "

RECURSIVE LStrip(_)
LStrip(s) == IF s # <<>> /\ IsBlank(Head(s)) THEN LStrip(Tail(s)) ELSE s

RECURSIVE RStrip(_)
RStrip(s) ==
    IF s # <<>> /\ IsBlank(s[Len(s)]) THEN RStrip(SubSeq(s, 1, Len(s) - 1)) ELSE s

strip(s) == RStrip(LStrip(s))

zavtra == <<"zavtra">>

segodnya == <<"segodnya">>

poslezavtra == <<"posle", "zavtra">>

\* The list literal RU_MONTHS is built from: nominative and genitive forms.
MonthForms ==
    << <<"yanvar", "yanvarya">>, <<"fevral", "fevralya">>, <<"mart", "marta">>,
       <<"aprel", "aprelya">>, <<"may", "maya">>, <<"iyun", "iyunya">>,
       <<"iyul", "iyulya">>, <<"avgust", "avgusta">>, <<"sentyabr", "sentyabrya">>,
       <<"oktyabr", "oktyabrya">>, <<"noyabr", "noyabrya">>, <<"dekabr", "dekabrya">> >>

MonthNames == UNION {{MonthForms[i][1], MonthForms[i][2]} : i \in 1..12}

RU_MONTHS ==
    [m \in MonthNames |->
        CHOOSE i \in 1..12 : m \in {MonthForms[i][1], MonthForms[i][2]}]

\* The month alternation of the regular expressions: genitive forms only.
GenitiveMonths == {MonthForms[i][2] : i \in 1..12}

Digits == {"0", "1", "2", "3", "4", "5", "6", "7", "8", "9"}

DigitVal(c) ==
    CASE c = "0" -> 0 [] c = "1" -> 1 [] c = "2" -> 2 [] c = "3" -> 3
      [] c = "4" -> 4 [] c = "5" -> 5 [] c = "6" -> 6 [] c = "7" -> 7
      [] c = "8" -> 8 [] c = "9" -> 9

IsDigitAt(s, i) == i >= 1 /\ i <= Len(s) /\ s[i] \in Digits

\* int() of the nd digits of s starting at i
IntAt(s, i, nd) ==
    IF nd = 2 THEN 10 * DigitVal(s[i]) + DigitVal(s[i + 1]) ELSE DigitVal(s[i])

\* number of consecutive blanks of s from position i on (the greedy \s*)
RECURSIVE Blanks(_, _)
Blanks(s, i) == IF i <= Len(s) /\ IsBlank(s[i]) THEN 1 + Blanks(s, i + 1) ELSE 0

NoMatch == [ok |-> FALSE, start |-> 0, len |-> 0, g1 |-> 0, g2 |-> 0]

\* (\d{1,2})\s*(января|...|декабря) anchored at i with nd digits
NamedTry(s, i, nd) ==
    LET k == i + nd + Blanks(s, i + nd)
    IN  IF (\A j \in i..(i + nd - 1) : IsDigitAt(s, j))
           /\ k <= Len(s) /\ s[k] \in GenitiveMonths
        THEN [ok |-> TRUE, start |-> i, len |-> k - i + 1,
              g1 |-> IntAt(s, i, nd), g2 |-> RU_MONTHS[s[k]]]
        ELSE NoMatch

NamedAt(s, i) ==
    IF NamedTry(s, i, 2).ok THEN NamedTry(s, i, 2) ELSE NamedTry(s, i, 1)

\* (\d{1,2})\.(\d{1,2}) anchored at i with nd digits before the dot
NumericTry(s, i, nd) ==
    LET d == i + nd
    IN  IF (\A j \in i..(i + nd - 1) : IsDigitAt(s, j))
           /\ d <= Len(s) /\ s[d] = "." /\ IsDigitAt(s, d + 1)
        THEN LET n2 == IF IsDigitAt(s, d + 2) THEN 2 ELSE 1
             IN  [ok |-> TRUE, start |-> i, len |-> nd + 1 + n2,
                  g1 |-> IntAt(s, i, nd), g2 |-> IntAt(s, d + 1, n2)]
        ELSE NoMatch

NumericAt(s, i) ==
    IF NumericTry(s, i, 2).ok THEN NumericTry(s, i, 2) ELSE NumericTry(s, i, 1)

\* re.search: the match at the leftmost position that has one
RECURSIVE NamedFrom(_, _)
NamedFrom(s, i) ==
    IF i > Len(s) THEN NoMatch
    ELSE IF NamedAt(s, i).ok THEN NamedAt(s, i) ELSE NamedFrom(s, i + 1)

NamedSearch(s) == NamedFrom(s, 1)

RECURSIVE NumericFrom(_, _)
NumericFrom(s, i) ==
    IF i > Len(s) THEN NoMatch
    ELSE IF NumericAt(s, i).ok THEN NumericAt(s, i) ELSE NumericFrom(s, i + 1)

NumericSearch(s) == NumericFrom(s, 1)

WordAt(s, i, kw) == i + Len(kw) - 1 <= Len(s) /\ SubSeq(s, i, i + Len(kw) - 1) = kw

\* The alternation of the re.sub pattern anchored at i: the alternatives are
\* tried in the order they are written; 0 when none matches.
DateSpanAt(s, i) ==
    IF WordAt(s, i, zavtra) THEN Len(zavtra)
    ELSE IF WordAt(s, i, segodnya) THEN Len(segodnya)
    ELSE IF WordAt(s, i, poslezavtra) THEN Len(poslezavtra)
    ELSE IF NamedAt(s, i).ok THEN NamedAt(s, i).len
    ELSE IF NumericAt(s, i).ok THEN NumericAt(s, i).len
    ELSE 0

RECURSIVE FirstDateSpan(_, _)
FirstDateSpan(s, i) ==
    IF i > Len(s) THEN [start |-> 0, len |-> 0]
    ELSE IF DateSpanAt(s, i) > 0 THEN [start |-> i, len |-> DateSpanAt(s, i)]
    ELSE FirstDateSpan(s, i + 1)

\* re.sub(pattern, '', s, count=1)
SubOnce(s) ==
    LET m == FirstDateSpan(s, 1)
    IN  IF m.len = 0 THEN s
        ELSE SubSeq(s, 1, m.start - 1) \o SubSeq(s, m.start + m.len, Len(s))

-----------------------------------------------------------------------------
(* The meetings table and the functions of bot.py that read and write it.  *)
(* db is the table in rowid order: db[i] is the row with id i.             *)

NoneDate == [some |-> FALSE, val |-> MkDate(0, 0, 0)]

Today(n) == MkDate(n.year, n.month, n.day)

\* SQLite's LIKE folds the case of the 26 Latin letters only.
LikeFold(c) == IF c = "Q" THEN "q" ELSE c

\* text LIKE pattern, with the wildcards % and _
RECURSIVE LikeMatch(_, _)
LikeMatch(p, t) ==
    IF p = <<>> THEN t = <<>>
    ELSE IF Head(p) = "%"
         THEN \E k \in 0..Len(t) : LikeMatch(Tail(p), SubSeq(t, k + 1, Len(t)))
    ELSE /\ t # <<>>
         /\ (Head(p) = "_" \/ LikeFold(Head(p)) = LikeFold(Head(t)))
         /\ LikeMatch(Tail(p), Tail(t))

\* column LIKE f"%{query}%"; a NULL column never matches
Like(col, query) == col.some /\ LikeMatch(<<"%">> \o query \o <<"%">>, col.val)

MatchesText(row, query) == Like(Some(row.summary), query) \/ Like(row.location, query)

\* create_meeting with the location left out of the INSERT
create_meeting_without_location(d, user_id, summary, start_time, duration, location) ==
    Append(d, [user_id |-> user_id, summary |-> summary, start_time |-> start_time,
               duration_minutes |-> duration, location |-> None])

\* create_meeting as INSERT OR REPLACE on (user_id, summary, start_time)
create_meeting_or_replace(d, user_id, summary, start_time, duration, location) ==
    LET row  == [user_id |-> user_id, summary |-> summary, start_time |-> start_time,
                 duration_minutes |-> duration, location |-> location]
        same == {i \in DOMAIN d : /\ d[i].user_id = user_id
                                  /\ d[i].summary = summary
                                  /\ d[i].start_time = start_time}
    IN  IF same = {} THEN Append(d, row)
        ELSE [i \in DOMAIN d |-> IF i \in same THEN row ELSE d[i]]

create_meeting(d, user_id, summary, start_time, duration, location) ==
    Append(d, [user_id |-> user_id, summary |-> summary, start_time |-> start_time,
               duration_minutes |-> duration, location |-> location])

\* get_meetings with the parentheses around the two LIKEs left out: AND binds
\* tighter than OR, so a matching location alone selects a row.
get_meetings_unparenthesised(d, user_id, time_min, time_max, query) ==
    {i \in DOMAIN d :
        \/ /\ d[i].user_id = user_id
           /\ (Truthy(time_min) => ~SeqLess(d[i].start_time, time_min.val))
           /\ (Truthy(time_max) => SeqLess(d[i].start_time, time_max.val))
           /\ (Truthy(query) => Like(Some(d[i].summary), query.val))
        \/ Truthy(query) /\ Like(d[i].location, query.val)}

\* The ids of the rows the SELECT of get_meetings returns.
get_meetings(d, user_id, time_min, time_max, query) ==
    {i \in DOMAIN d :
        /\ d[i].user_id = user_id
        /\ (Truthy(time_min) => ~SeqLess(d[i].start_time, time_min.val))
        /\ (Truthy(time_max) => SeqLess(d[i].start_time, time_max.val))
        /\ (Truthy(query) => MatchesText(d[i], query.val))}

\* ORDER BY start_time: the rows that may come first (ties are in no fixed order).
Firsts(d, ids) == {i \in ids : \A j \in ids : ~SeqLess(d[j].start_time, d[i].start_time)}

\* find_meeting_by_query with ORDER BY start_time (ascending) LIMIT 1
find_meeting_by_query_ascending(d, user_id, query) ==
    LET ids == {i \in DOMAIN d : d[i].user_id = user_id /\ MatchesText(d[i], query)}
    IN  {i \in ids : \A j \in ids : ~SeqLess(d[j].start_time, d[i].start_time)}

\* ORDER BY start_time DESC LIMIT 1: the rows that may be the one returned.
find_meeting_by_query(d, user_id, query) ==
    LET ids == {i \in DOMAIN d : d[i].user_id = user_id /\ MatchesText(d[i], query)}
    IN  {i \in ids : \A j \in ids : ~SeqLess(d[i].start_time, d[j].start_time)}

update_meeting_location(d, user_id, summary, start_time, new_location) ==
    [i \in DOMAIN d |->
        IF d[i].user_id = user_id /\ d[i].summary = summary
           /\ d[i].start_time = start_time
        THEN [d[i] EXCEPT !.location = Some(new_location)]
        ELSE d[i]]

\* The UPDATE statement of update_meeting_summary.
SetSummary(d, user_id, old_summary, start_time, new_summary) ==
    [i \in DOMAIN d |->
        IF d[i].user_id = user_id /\ d[i].summary = old_summary
           /\ d[i].start_time = start_time
        THEN [d[i] EXCEPT !.summary = new_summary]
        ELSE d[i]]

\* The relative-day branch, in the order the code tests the keywords.
RelativeDay(lq, n) ==
    IF Contains(lq, zavtra) THEN Some(AddDays(Today(n), 1))
    ELSE IF Contains(lq, segodnya) THEN Some(Today(n))
    ELSE IF Contains(lq, poslezavtra) THEN Some(AddDays(Today(n), 2))
    ELSE NoneDate

\* the year rule with > in place of >=
InferYear_strict(month, n) == IF month > n.month THEN n.year ELSE n.year + 1

\* year = now.year if month >= now.month else now.year + 1
InferYear(month, n) == IF month >= n.month THEN n.year ELSE n.year + 1

\* What smart_get_meetings passes to get_meetings when it found no date.
PassThrough(query, time_min, time_max) ==
    [raised |-> FALSE, dated |-> FALSE,
     time_min |-> time_min, time_max |-> time_max, query |-> query]

\* The named-month branch: taken when the pattern matches and no relative day was
\* found; datetime(year, month, day) is not guarded, so an invalid date raises.
NamedDate(n, rel, nm) ==
    IF nm.ok /\ ~rel.some
    THEN IF ValidDate(InferYear(nm.g2, n), nm.g2, nm.g1)
         THEN [raised |-> FALSE, some |-> TRUE,
               val |-> MkDate(InferYear(nm.g2, n), nm.g2, nm.g1)]
         ELSE [raised |-> TRUE, some |-> FALSE, val |-> MkDate(0, 0, 0)]
    ELSE [raised |-> FALSE, some |-> rel.some, val |-> rel.val]

\* The numeric branch: taken when the pattern matches and no date was found yet;
\* the ValueError of an invalid date is caught and leaves target_date None.
NumericDate(n, t, um) ==
    IF ~t.raised /\ ~t.some /\ um.ok /\ ValidDate(InferYear(um.g2, n), um.g2, um.g1)
    THEN [raised |-> FALSE, some |-> TRUE,
          val |-> MkDate(InferYear(um.g2, n), um.g2, um.g1)]
    ELSE t

\* target_date at line 157, or the ValueError raised on the way
TargetDate(n, lq) ==
    NumericDate(n, NamedDate(n, RelativeDay(lq, n), NamedSearch(lq)), NumericSearch(lq))

\* query after the re.sub and strip of line 160, None when nothing is left
Residual(text) == IF text = <<>> THEN None ELSE Some(text)

WithTarget(t, lq, query, time_min, time_max) ==
    IF t.raised
    THEN [raised |-> TRUE, dated |-> FALSE,
          time_min |-> time_min, time_max |-> time_max, query |-> query]
    ELSE IF t.some
    THEN [raised |-> FALSE, dated |-> TRUE,
          time_min |-> Some(Midnight(t.val)),
          time_max |-> Some(Midnight(AddDays(t.val, 1))),
          query |-> Residual(strip(SubOnce(lq)))]
    ELSE PassThrough(query, time_min, time_max)

\* The part of smart_get_meetings before the call of get_meetings: whether it
\* raises, and the arguments it passes on.
SmartArgs(n, query, time_min, time_max) ==
    IF ~Truthy(query)
    THEN PassThrough(query, time_min, time_max)
    ELSE WithTarget(TargetDate(n, lower(query.val)), lower(query.val),
                    query, time_min, time_max)

\* get_meetings called with the arguments smart_get_meetings worked out
Fetch(d, user_id, a) == get_meetings(d, user_id, a.time_min, a.time_max, a.query)

\* smart_get_meetings when it does not raise: the ids get_meetings returns.
smart_get_meetings(d, n, user_id, query, time_min, time_max) ==
    Fetch(d, user_id, SmartArgs(n, query, time_min, time_max))

-----------------------------------------------------------------------------
(* handle_text: the intent the classifier returned (req), the clock of the *)
(* request (now) and what the handler did (out).                           *)
(*   out.reply: "idle" between two messages, "pending" for a message that  *)
(*     waits to be handled, then the kind of the message sent with         *)
(*     reply_text, "none" when the handler returned without sending one;   *)
(*   out.sgm: whether smart_get_meetings was called and raised or returned,*)
(*   out.args: the arguments it passed to get_meetings, and whether it had *)
(*     found a date (the branch "if target_date:" was taken),              *)
(*   out.cands: the ids of the rows it returned,                           *)
(*   out.row: the id of the one row the branch took from its lookup (the   *)
(*     fetchone() row, meetings[0]), 0 when it took none; the reply        *)
(*     "route" is reply_with_route called for that row.                    *)

NoneInt == [some |-> FALSE, val |-> 0]

DefaultTitle == <<"Vstrecha">>

DefaultDuration == 30

NoArgs == [dated |-> FALSE, time_min |-> None, time_max |-> None, query |-> None]

Out(reply, sgm, args, cands, row) ==
    [reply |-> reply, sgm |-> sgm, args |-> args, cands |-> cands, row |-> row]

Pending == Out("pending", "no", NoArgs, {}, 0)

Idle == Out("idle", "no", NoArgs, {}, 0)

Plain(reply) == Out(reply, "no", NoArgs, {}, 0)

ArgsOf(a) ==
    [dated |-> a.dated, time_min |-> a.time_min, time_max |-> a.time_max,
     query |-> a.query]

\* datetime.fromisoformat(start_time) of some listed row raises
RenderFails(d, ids) == \E i \in ids : ~IsIso(d[i].start_time)

ThisMonth == {<<"etot mesyac">>, <<"v etom mesyace">>}

MonthStart(y, m) == <<0, y, m, 1, 0>>

MonthEnd(y, m) == <<0, y + (IF m = 12 THEN 1 ELSE 0), (m % 12) + 1, 1, 0>>

\* The time window the list branch computes before it calls smart_get_meetings.
ListWindow(n, date_filter) ==
    LET df == lower(date_filter.val)
    IN  IF Truthy(date_filter) /\ df \in ThisMonth
        THEN [time_min |-> Some(MonthStart(n.year, n.month)),
              time_max |-> Some(MonthEnd(n.year, n.month))]
        ELSE IF Truthy(date_filter) /\ Len(df) = 1 /\ df[1] \in MonthNames
        THEN LET month == RU_MONTHS[df[1]]
                 year  == InferYear(month, n)
             IN  [time_min |-> Some(MonthStart(year, month)),
                  time_max |-> Some(MonthEnd(year, month))]
        ELSE [time_min |-> Some(Stamp(n)), time_max |-> None]

\* ---- the branches of handle_text: the set of (db', out') each can end in ----

Result(d, o) == [db |-> d, out |-> o]

CreateResults(d, n, r) ==
    IF ~r.datetime.some
    THEN {Result(d, Plain("clarify"))}
    ELSE {Result(create_meeting(d, r.user,
                                IF Truthy(r.summary) THEN r.summary.val ELSE DefaultTitle,
                                r.datetime.val,
                                IF r.duration.some THEN r.duration.val ELSE DefaultDuration,
                                r.location),
                 \* datetime.fromisoformat(dt) comes after the insert
                 IF IsIso(r.datetime.val) THEN Plain("created") ELSE Plain("apology"))}

\* The reply that lists the rows m: every start_time is parsed on the way.
Listing(d, m, args, reply) ==
    IF RenderFails(d, m)
    THEN Out("apology", "returned", args, m, 0)
    ELSE Out(reply, "returned", args, m, 0)

\* Row e was taken; its start_time is parsed, then reply_with_route is called.
Routed(d, e, sgm, args, m) ==
    IF IsIso(d[e].start_time)
    THEN Out("route", sgm, args, m, e)
    ELSE Out("apology", sgm, args, m, e)

Raised(d) == {Result(d, Out("apology", "raised", NoArgs, {}, 0))}

NotFound(d, args) == {Result(d, Out("not_found", "returned", args, {}, 0))}

ListFetched(d, a, m) ==
    IF a.raised THEN Raised(d)
    ELSE IF m = {} THEN {Result(d, Out("list_empty", "returned", ArgsOf(a), m, 0))}
    ELSE {Result(d, Listing(d, m, ArgsOf(a), "list"))}

ListWith(d, r, a) == ListFetched(d, a, Fetch(d, r.user, a))

ListIn(d, n, r, w) == ListWith(d, r, SmartArgs(n, r.query, w.time_min, w.time_max))

ListResults(d, n, r) == ListIn(d, n, r, ListWindow(n, r.date_filter))

\* route and get_location: the fallback takes meetings[0]
RouteFetched(d, a, m) ==
    IF a.raised THEN Raised(d)
    ELSE IF m = {} THEN NotFound(d, ArgsOf(a))
    ELSE {Result(d, Routed(d, e, "returned", ArgsOf(a), m)) : e \in Firsts(d, m)}

RouteWith(d, r, a) == RouteFetched(d, a, Fetch(d, r.user, a))

RouteLookup(d, n, r, q, direct) ==
    IF direct # {}
    THEN {Result(d, Routed(d, e, "no", NoArgs, {})) : e \in direct}
    ELSE RouteWith(d, r, SmartArgs(n, q, None, None))

RouteFor(d, n, r, q) ==
    IF ~Truthy(q) THEN {Result(d, Plain("clarify"))}
    ELSE RouteLookup(d, n, r, q, find_meeting_by_query(d, r.user, q.val))

RouteResults(d, n, r) ==
    RouteFor(d, n, r, IF Truthy(r.query) THEN r.query ELSE r.summary)

\* where: the fallback lists the rows when there are several
WhereFetched(d, a, m) ==
    IF a.raised THEN Raised(d)
    ELSE IF m = {} THEN NotFound(d, ArgsOf(a))
    ELSE IF Cardinality(m) > 1 THEN {Result(d, Listing(d, m, ArgsOf(a), "candidates"))}
    ELSE {Result(d, Routed(d, e, "returned", ArgsOf(a), m)) : e \in m}

WhereWith(d, r, a) == WhereFetched(d, a, Fetch(d, r.user, a))

WhereLookup(d, n, r, direct) ==
    IF direct # {}
    THEN {Result(d, Routed(d, e, "no", NoArgs, {})) : e \in direct}
    ELSE WhereWith(d, r, SmartArgs(n, r.query, None, None))

WhereResults(d, n, r) ==
    IF ~Truthy(r.query) THEN {Result(d, Plain("clarify"))}
    ELSE WhereLookup(d, n, r, find_meeting_by_query(d, r.user, r.query.val))

\* The row of a one-row result.
Only(m) == CHOOSE i \in m : TRUE

UpdateLocationFetched(d, r, a, m) ==
    IF a.raised THEN Raised(d)
    ELSE IF m = {} THEN NotFound(d, ArgsOf(a))
    ELSE IF Cardinality(m) = 1
    THEN {Result(update_meeting_location(d, r.user, d[Only(m)].summary,
                                         d[Only(m)].start_time, r.location.val),
                 Out("updated", "returned", ArgsOf(a), m, Only(m)))}
    ELSE {Result(d, Listing(d, m, ArgsOf(a), "candidates"))}

UpdateLocationWith(d, r, a) == UpdateLocationFetched(d, r, a, Fetch(d, r.user, a))

UpdateLocationResults(d, n, r) ==
    IF ~Truthy(r.query) \/ ~Truthy(r.location) THEN {Result(d, Plain("clarify"))}
    ELSE UpdateLocationWith(d, r, SmartArgs(n, r.query, None, None))

\* update_meeting_summary(user_id, old_query, new_summary) once its
\* smart_get_meetings call has returned the rows m: the table after it.
update_meeting_summary(d, user_id, m, new_summary) ==
    IF m = {} THEN d
    ELSE IF Cardinality(m) = 1
    THEN SetSummary(d, user_id, d[Only(m)].summary, d[Only(m)].start_time, new_summary)
    ELSE d

UpdateSummaryFetched(d, r, a, m) ==
    IF a.raised THEN Raised(d)
    ELSE IF Cardinality(m) = 1
    THEN {Result(update_meeting_summary(d, r.user, m, r.new_summary.val),
                 Out("updated", "returned", ArgsOf(a), m, Only(m)))}
    ELSE IF Cardinality(m) > 1 THEN {Result(d, Listing(d, m, ArgsOf(a), "candidates"))}
    ELSE NotFound(d, ArgsOf(a))

UpdateSummaryWith(d, r, a) == UpdateSummaryFetched(d, r, a, Fetch(d, r.user, a))

UpdateSummaryResults(d, n, r) ==
    IF ~Truthy(r.query) \/ ~Truthy(r.new_summary) THEN {Result(d, Plain("clarify"))}
    ELSE UpdateSummaryWith(d, r, SmartArgs(n, r.query, None, None))

-----------------------------------------------------------------------------
(* Requests.  A field a branch never reads is left None.                   *)

Req(action, user, summary, datetime, duration, location, query, new_summary, df) ==
    [action |-> action, user |-> user, summary |-> summary, datetime |-> datetime,
     duration |-> duration, location |-> location, query |-> query,
     new_summary |-> new_summary, date_filter |-> df]

\* parse_intent returned None or an empty object
NoIntent(user) == Req("null", user, None, None, NoneInt, None, None, None, None)

MaxMeetings == 2

MaxLen == 3

Users == {1, 2}

Clock(y, m, d, h) == [year |-> y, month |-> m, day |-> d, hour |-> h]

Nows == {Clock(2025, 6, 10, 12)}

\* start times: tomorrow 10:00, 3 November 15:00, and a string that is no timestamp
S1 == <<0, 2025, 6, 11, 10>>

S2 == <<0, 2025, 11, 3, 15>>

BadTime == <<1, 0, 0, 0, 0>>

Titles == {None, Some(<<"R", "r">>)}

Places == {None, Some(<<"r">>)}

Queries == {None, Some(<<"r">>), Some(<<"zavtra">>),
            Some(<<"3", " ", "noyabrya">>), Some(<<"3", "1", "noyabrya">>)}

CreateReqs ==
    {Req("create", u, s, dt, NoneInt, l, None, None, None) :
        u \in Users, s \in Titles, dt \in {None, Some(S1), Some(S2), Some(BadTime)},
        l \in Places}

ListReqs ==
    {Req("list", u, None, None, NoneInt, None, q, None, None) :
        u \in Users, q \in Queries}
    \cup {Req("list", u, None, None, NoneInt, None, None, None, Some(<<"noyabr">>)) :
        u \in Users}

RouteReqs ==
    {Req("route", u, None, None, NoneInt, None, q, None, None) :
        u \in Users, q \in Queries}
    \cup {Req("get_location", u, s, None, NoneInt, None, None, None, None) :
        u \in Users, s \in Titles}

WhereReqs ==
    {Req("where", u, None, None, NoneInt, None, q, None, None) :
        u \in Users, q \in Queries}

UpdateLocationReqs ==
    {Req("update_location", u, None, None, NoneInt, Some(<<"r">>), q, None, None) :
        u \in Users, q \in Queries}
    \cup {Req("update_location", u, None, None, NoneInt, None, Some(<<"r">>), None, None) :
        u \in Users}

UpdateSummaryReqs ==
    {Req("update_summary", u, None, None, NoneInt, None, q, Some(<<"R", "r">>), None) :
        u \in Users, q \in Queries}
    \cup {Req("update_summary", u, None, None, NoneInt, None, Some(<<"r">>), None, None) :
        u \in Users}

\* an action handle_text has no branch for, or no action field at all
UnknownReqs ==
    {Req(a, u, None, None, NoneInt, None, None, None, None) :
        a \in {"delete", "missing"}, u \in Users}

-----------------------------------------------------------------------------
(* One action per branch of handle_text; each handles one message whole.   *)

Step(r, n, results) ==
    /\ out.reply = "idle"
    /\ \E x \in results : db' = x.db /\ out' = x.out /\ req' = r /\ now' = n

\* The handler has returned; the dispatcher waits for the next message.
NextMessage ==
    /\ out.reply # "idle"
    /\ out' = Idle
    /\ req' = NoIntent(1)
    /\ UNCHANGED <<db, now>>

HandleNoIntent ==
    \E u \in Users, n \in Nows : Step(NoIntent(u), n, {Result(db, Plain("clarify"))})

HandleCreate ==
    \E r \in CreateReqs, n \in Nows :
        Len(db) < MaxMeetings /\ Step(r, n, CreateResults(db, n, r))

HandleList ==
    \E r \in ListReqs, n \in Nows : Step(r, n, ListResults(db, n, r))

HandleRoute ==
    \E r \in RouteReqs, n \in Nows : Step(r, n, RouteResults(db, n, r))

HandleWhere ==
    \E r \in WhereReqs, n \in Nows : Step(r, n, WhereResults(db, n, r))

HandleUpdateLocation ==
    \E r \in UpdateLocationReqs, n \in Nows : Step(r, n, UpdateLocationResults(db, n, r))

HandleUpdateSummary ==
    \E r \in UpdateSummaryReqs, n \in Nows : Step(r, n, UpdateSummaryResults(db, n, r))

\* no branch of the if/elif chain matches: nothing is sent
HandleUnknown ==
    \E r \in UnknownReqs, n \in Nows : Step(r, n, {Result(db, Plain("none"))})

Init ==
    /\ db = <<>>
    /\ now \in Nows
    /\ req = NoIntent(1)
    /\ out = Idle

Next ==
    \/ HandleNoIntent
    \/ HandleCreate
    \/ HandleList
    \/ HandleRoute
    \/ HandleWhere
    \/ HandleUpdateLocation
    \/ HandleUpdateSummary
    \/ HandleUnknown
    \/ NextMessage

Spec == Init /\ [][Next]_vars

-----------------------------------------------------------------------------
(* Date resolution on its own: one message whose query is any text of at   *)
(* most MaxLen symbols is waiting, the clock is one of ResolveNows, and    *)
(* the table holds the rows of ResolveDb.                                  *)

Alphabet == {"zavtra", "segodnya", "posle", "noyabrya", "marta",
             "0", "1", "3", "8", ".", " ", "r", "R"}

WideTexts == UNION {[1..k -> Alphabet] : k \in 0..MaxLen}

ResolveNows == {Clock(2025, 6, 10, 12), Clock(2025, 12, 31, 23), Clock(2024, 3, 31, 9)}

ResolveDb ==
    << [user_id |-> 1, summary |-> <<"R", "r">>, start_time |-> S1,
        duration_minutes |-> DefaultDuration, location |-> None],
       [user_id |-> 1, summary |-> DefaultTitle, start_time |-> S2,
        duration_minutes |-> DefaultDuration, location |-> Some(<<"r">>)] >>

DateFilters == {None, Some(<<"noyabr">>), Some(<<"Marta">>), Some(<<"etot mesyac">>)}

WideListReqs ==
    {Req("list", 1, None, None, NoneInt, None, q, None, f) :
        q \in {None} \cup {Some(t) : t \in WideTexts}, f \in DateFilters}

WideUpdateReqs ==
    {Req("update_location", 1, None, None, NoneInt, Some(<<"r">>), Some(t), None, None) :
        t \in WideTexts}

Handled(results) ==
    /\ out.reply = "pending"
    /\ \E x \in results : db' = x.db /\ out' = x.out
    /\ UNCHANGED <<req, now>>

ResolveList == req.action = "list" /\ Handled(ListResults(db, now, req))

ResolveUpdate ==
    req.action = "update_location" /\ Handled(UpdateLocationResults(db, now, req))

InitResolve ==
    /\ db = ResolveDb
    /\ now \in ResolveNows
    /\ req \in WideListReqs \cup WideUpdateReqs
    /\ out = Pending

NextResolve == ResolveList \/ ResolveUpdate

SpecResolve == InitResolve /\ [][NextResolve]_vars

-----------------------------------------------------------------------------
(* Properties.  A step that handles a message leads from an idle state     *)
(* (out.reply = "idle", db the table before the message) to the state with *)
(* req', out' and db' of the handled message.                              *)

Handles(actions) == out.reply = "idle" /\ req'.action \in actions

\* C1: an update_location or update_summary request changes the table only if
\* smart_get_meetings returned exactly one row; with no row it replies not-found,
\* with two or more it replies with the candidate list, and in both cases every
\* row is the same after the request as before.
C1_UpdateOnlyWhenUnique ==
    [][Handles({"update_location", "update_summary"})
         => /\ (db' # db => out'.sgm = "returned" /\ Cardinality(out'.cands) = 1)
            /\ (out'.sgm = "returned" /\ out'.cands = {}
                   => out'.reply = "not_found" /\ db' = db)
            /\ (out'.sgm = "returned" /\ Cardinality(out'.cands) >= 2
                   => out'.reply = "candidates" /\ db' = db)]_vars

\* The text a where/route request looks for: query, else summary.
RouteText(r) == IF Truthy(r.query) THEN r.query ELSE r.summary

\* The rows of the requester whose title or location contains the text.
Matching(d, r) ==
    {i \in DOMAIN d : d[i].user_id = r.user /\ MatchesText(d[i], RouteText(r).val)}

Latest(d, ids, row) ==
    row \in ids /\ \A i \in ids : ~SeqLess(d[row].start_time, d[i].start_time)

TitleOf(r) == IF Truthy(r.summary) THEN r.summary.val ELSE DefaultTitle

\* The table has the row the last create request inserted as its last row.
Created == req.action = "create" /\ out.reply \in {"created", "apology"}

\* The rows get_meetings returns for the creator, the new title as substring and
\* no time bounds.
RoundTrip == get_meetings(db, req.user, None, None, Some(TitleOf(req)))

\* C3 as stated: after create_meeting(owner, T, S, duration, L) the query of the
\* owner's meetings with substring T and no date filter returns exactly one row,
\* with title T, start S and location L.
C3_RoundTripExactlyOne ==
    Created => /\ Cardinality(RoundTrip) = 1
               /\ \A i \in RoundTrip :
                     /\ db[i].summary = TitleOf(req)
                     /\ db[i].start_time = req.datetime.val
                     /\ db[i].location = req.location

\* C3 amended: the query returns the new row, with title T, start S and location
\* L, together with every older row of the owner whose title or location contains
\* T; it returns exactly one row when there is no such older row.
C3_RoundTripReturnsNewRow ==
    Created => /\ Len(db) >= 1
               /\ db[Len(db)].user_id = req.user
               /\ db[Len(db)].summary = TitleOf(req)
               /\ db[Len(db)].start_time = req.datetime.val
               /\ db[Len(db)].location = req.location
               /\ RoundTrip = {Len(db)} \cup
                     {i \in 1..(Len(db) - 1) :
                        db[i].user_id = req.user /\ MatchesText(db[i], TitleOf(req))}

\* A second meeting was created and the round trip returns it alone.
C3_Witness == Created /\ Len(db) = 2 /\ RoundTrip = {2}

-----------------------------------------------------------------------------
(* Date resolution as specified, for the message of SpecResolve.           *)

\* The message has been handled and carried a query text.
Answered == out.reply # "pending" /\ Truthy(req.query)

Phrase == lower(req.query.val)

\* The time bounds smart_get_meetings passed to get_meetings.
Passed == [time_min |-> out.args.time_min, time_max |-> out.args.time_max]

\* The time bounds the branch called smart_get_meetings with.
CallerBounds ==
    IF req.action = "list" THEN ListWindow(now, req.date_filter)
    ELSE [time_min |-> None, time_max |-> None]

\* [00:00:00 of the date, 00:00:00 of the next day)
DayWindow(date) ==
    [time_min |-> Some(Midnight(date)), time_max |-> Some(Midnight(AddDays(date, 1)))]

\* "zavtra" that is not the end of "poslezavtra"
HasTomorrow(s) == \E i \in 1..Len(s) : s[i] = "zavtra" /\ (i = 1 \/ s[i - 1] # "posle")

\* The day offsets of the relative-day keywords the phrase contains.
KeywordOffsets(s) ==
    {k \in 0..2 : \/ k = 0 /\ Contains(s, segodnya)
                  \/ k = 1 /\ HasTomorrow(s)
                  \/ k = 2 /\ Contains(s, poslezavtra)}

\* C4: a phrase containing "segodnya" resolves to the reference date, one
\* containing "zavtra" to the reference date + 1 day, one containing
\* "poslezavtra" to the reference date + 2 days (phrases with keywords of two
\* kinds are left aside); the interval starts at 00:00:00 of that date and ends
\* at 00:00:00 of the next one.
C4_RelativeDayKeywords ==
    Answered =>
        \A k \in 0..2 :
            KeywordOffsets(Phrase) = {k}
                => /\ out.sgm = "returned"
                   /\ Passed = DayWindow(AddDays(Today(now), k))

\* The year rule as specified: the reference year when the month is not before
\* the reference month, else the next year.
YearFor(month) == IF month >= now.month THEN now.year ELSE now.year + 1

\* The match of a date pattern denotes a date of the calendar.
RealDate(mt) == mt.ok /\ ValidDate(YearFor(mt.g2), mt.g2, mt.g1)

DateOf(mt) == MkDate(YearFor(mt.g2), mt.g2, mt.g1)

Span(start, len) == [start |-> start, len |-> len]

\* The occurrences of the relative-day keywords in the phrase.
KeywordSpans(s) ==
    {Span(x[1], Len(x[2])) :
        x \in {y \in (1..Len(s)) \X {zavtra, segodnya, poslezavtra} :
                  WordAt(s, y[1], y[2])}}

\* The date substrings the detection precedence selects: a relative-day keyword,
\* else the named-month phrase, else the numeric D.M phrase.
SelectedSpans(s) ==
    IF KeywordSpans(s) # {} THEN KeywordSpans(s)
    ELSE IF RealDate(NamedSearch(s))
    THEN {Span(NamedSearch(s).start, NamedSearch(s).len)}
    ELSE IF RealDate(NumericSearch(s))
    THEN {Span(NumericSearch(s).start, NumericSearch(s).len)}
    ELSE {}

\* The phrase with the substring m taken out.
Cut(s, m) == SubSeq(s, 1, m.start - 1) \o SubSeq(s, m.start + m.len, Len(s))

\* C5: when a date was found, the substring filter is the lowercased phrase with
\* the date substring selected by the precedence (keyword, then named month, then
\* D.M; any keyword occurrence is accepted) removed once and the rest trimmed,
\* wherever in the phrase another date-like substring occurs.
C5_RemovesSelectedReference ==
    Answered /\ out.args.dated =>
        \E m \in SelectedSpans(Phrase) :
            out.args.query = Residual(strip(Cut(Phrase, m)))

\* C6: whatever intent the classifier returned, handling the message ends with a
\* reply sent to the requester (out.reply is "none" when the handler returned
\* without sending one).
C6_AlwaysReplies == out.reply # "none"

\* The phrase has a date phrase, no relative-day keyword, and none of its date
\* phrases denotes a date of the calendar.
OnlyInvalidDates(s) ==
    /\ KeywordOffsets(s) = {}
    /\ NamedSearch(s).ok \/ NumericSearch(s).ok
    /\ ~RealDate(NamedSearch(s))
    /\ ~RealDate(NumericSearch(s))

\* C7: a date phrase that denotes an invalid calendar date is no date match:
\* smart_get_meetings raises nothing, derives no interval, keeps the caller's
\* time bounds and uses the full query text as the substring filter.
C7_InvalidDateIsNoMatch ==
    Answered /\ OnlyInvalidDates(Phrase) =>
        /\ out.sgm = "returned"
        /\ ~out.args.dated
        /\ Passed = CallerBounds
        /\ out.args.query = req.query

\* The phrase contains a date reference: one kind of relative-day keyword, or no
\* keyword and a named-month or D.M phrase that denotes a date.
Recognised(s) ==
    \/ Cardinality(KeywordOffsets(s)) = 1
    \/ KeywordOffsets(s) = {} /\ (RealDate(NamedSearch(s)) \/ RealDate(NumericSearch(s)))

Unrecognised(s) ==
    KeywordOffsets(s) = {} /\ ~RealDate(NamedSearch(s)) /\ ~RealDate(NumericSearch(s))

\* The date the reference resolves to.
ResolvedDate(s) ==
    IF KeywordOffsets(s) # {}
    THEN AddDays(Today(now), CHOOSE k \in KeywordOffsets(s) : TRUE)
    ELSE IF RealDate(NamedSearch(s)) THEN DateOf(NamedSearch(s))
    ELSE DateOf(NumericSearch(s))

\* C8: whenever smart_get_meetings is called (out.sgm is not "no"): when the
\* query text contains a date reference, the bounds passed to
\* get_meetings are [00:00:00 of the resolved date, 00:00:00 of the next day)
\* whatever bounds the caller supplied and the substring filter is the residual
\* text (None when it is empty); when the query is absent or has no date
\* reference, the caller's bounds reach get_meetings unchanged.
C8_DateOverridesBounds ==
    out.sgm # "no" =>
        /\ (Truthy(req.query) /\ Recognised(Phrase)
              => /\ out.sgm = "returned"
                 /\ Passed = DayWindow(ResolvedDate(Phrase))
                 /\ \E m \in SelectedSpans(Phrase) :
                       out.args.query = Residual(strip(Cut(Phrase, m))))
        /\ (~Truthy(req.query) \/ Unrecognised(Phrase)
              => out.sgm = "returned" /\ Passed = CallerBounds)

\* The list request's date_filter is a month name and the query gave no date.
MonthFiltered ==
    /\ req.action = "list" /\ out.sgm = "returned" /\ ~out.args.dated
    /\ Truthy(req.date_filter) /\ Len(req.date_filter.val) = 1
    /\ lower(req.date_filter.val)[1] \in MonthNames

\* C9: a date phrase without a year (named month, D.M, month-name list filter)
\* gets the reference year if its month is greater than or equal to the
\* reference month, else the reference year + 1; with reference 2025-06-10,
\* "8 noyabrya" is 2025-11-08 and "3 marta" is 2026-03-03.
C9_YearInference ==
    out.reply # "pending" =>
        /\ (Truthy(req.query) /\ KeywordOffsets(Phrase) = {}
            /\ RealDate(NamedSearch(Phrase))
              => out.args.time_min =
                    Some(<<0, YearFor(NamedSearch(Phrase).g2), NamedSearch(Phrase).g2,
                           NamedSearch(Phrase).g1, 0>>))
        /\ (Truthy(req.query) /\ KeywordOffsets(Phrase) = {}
            /\ ~NamedSearch(Phrase).ok /\ RealDate(NumericSearch(Phrase))
              => out.args.time_min =
                    Some(<<0, YearFor(NumericSearch(Phrase).g2),
                           NumericSearch(Phrase).g2, NumericSearch(Phrase).g1, 0>>))
        /\ (MonthFiltered
              => out.args.time_min =
                    Some(<<0, YearFor(RU_MONTHS[lower(req.date_filter.val)[1]]),
                           RU_MONTHS[lower(req.date_filter.val)[1]], 1, 0>>))
        /\ (now = Clock(2025, 6, 10, 12) /\ req.query = Some(<<"8", " ", "noyabrya">>)
              => out.args.time_min = Some(<<0, 2025, 11, 8, 0>>))
        /\ (now = Clock(2025, 6, 10, 12) /\ req.query = Some(<<"3", " ", "marta">>)
              => out.args.time_min = Some(<<0, 2026, 3, 3, 0>>))

\* "3 marta" asked on 2025-06-10 was resolved to 3 March of the next year.
C9_Witness ==
    /\ out.reply # "pending" /\ now = Clock(2025, 6, 10, 12)
    /\ req.query = Some(<<"3", " ", "marta">>)
    /\ out.args.time_min = Some(<<0, 2026, 3, 3, 0>>)

\* C10: no request removes a row; a create (a create request that carries a
\* datetime) adds exactly one row and nothing else adds any; user_id, start_time
\* and duration_minutes of every row keep their values; summary changes only
\* through update_summary and location only through update_location.
C10_RecordsImmutable ==
    [][/\ Len(db') >= Len(db)
       /\ (Len(db') # Len(db) => Len(db') = Len(db) + 1 /\ req'.action = "create")
       /\ (Handles({"create"}) /\ req'.datetime.some => Len(db') = Len(db) + 1)
       /\ \A i \in 1..Len(db) :
             /\ db'[i].user_id = db[i].user_id
             /\ db'[i].start_time = db[i].start_time
             /\ db'[i].duration_minutes = db[i].duration_minutes
             /\ (db'[i].summary # db[i].summary => req'.action = "update_summary")
             /\ (db'[i].location # db[i].location => req'.action = "update_location")
      ]_vars

\* An update_summary request renamed a meeting of a table of two.
C10_Witness ==
    /\ req.action = "update_summary" /\ out.reply = "updated" /\ Len(db) = 2
    /\ \E i \in 1..Len(db) : db[i].summary = req.new_summary.val

C12_ApologyDropsRequest ==
    [][out.reply = "idle" /\ out'.reply = "apology" => db' = db]_vars

\* The rows of user u.
Owned(d, u) == {i \in DOMAIN d : d[i].user_id = u}

\* C14: a request of a user never returns, lists or selects a row of another
\* user and never changes one: the rows smart_get_meetings returned and the row
\* the branch took are the requester's, every row of another user is the same
\* after the request as before, and a row the request adds is the requester's.
C14_OwnerIsolation ==
    [][out.reply = "idle" /\ out'.reply # "idle"
         => /\ out'.cands \subseteq Owned(db, req'.user)
            /\ (out'.row # 0 => out'.row \in Owned(db, req'.user))
            /\ \A i \in DOMAIN db : db[i].user_id # req'.user => db'[i] = db[i]
            /\ \A i \in DOMAIN db' \ DOMAIN db : db'[i].user_id = req'.user
      ]_vars

\* A request with a substring filter got rows back while a row of the other user
\* matches the same filter.
C14_Witness ==
    /\ out.cands # {} /\ Truthy(out.args.query)
    /\ \E j \in DOMAIN db :
          db[j].user_id # req.user /\ MatchesText(db[j], out.args.query.val)

-----------------------------------------------------------------------------
(* Several messages in flight.  Every message is handled by its own        *)
(* handle_text coroutine (a task) on the one event loop of the             *)
(* application: a task runs without interruption from one await to the     *)
(* next, and other tasks run only while it is suspended in an await.  In   *)
(* SpecFlight req and out are indexed by the task: req[t] is the intent of *)
(* task t and out[t] its position:                                         *)
(*   phase "idle": no message; "queried": an update branch has the rows of *)
(*     smart_get_meetings and has not yet issued its UPDATE; "awaiting":   *)
(*     suspended in the await of its reply (reply_text, reply_with_route), *)
(*   res: what the handler did (as out in Spec),                           *)
(*   seen: the table the candidate query of the task read.                 *)

MaxInFlight == 2

Tasks == 1..MaxInFlight

Flight(phase, res, seen) == [phase |-> phase, res |-> res, seen |-> seen]

NotStarted == Flight("idle", Idle, <<>>)

FlightCreateReqs ==
    {Req("create", 1, s, Some(dt), NoneInt, None, None, None, None) :
        s \in Titles, dt \in {S1, S2}}

FlightListReqs == {Req("list", 1, None, None, NoneInt, None, None, None, None)}

FlightUpdateReqs ==
    {Req("update_location", 1, None, None, NoneInt, Some(<<"r">>), Some(<<"r">>),
         None, None)}
    \cup {Req("update_summary", 1, None, None, NoneInt, None, Some(<<"r">>), Some(t), None) :
            t \in {<<"R", "r">>, <<"Q">>}}

\* an await in front of the UPDATE as well
SuspendsAfterQuery_always(action, n) == TRUE

\* Whether an update branch whose smart_get_meetings call returned n rows reaches
\* an await before its next store operation: with no row or several rows it
\* awaits reply_text (and returns), with one row it goes on to the UPDATE.
SuspendsAfterQuery(action, n) == n # 1

\* Task t is running: it is between its query and its UPDATE and not suspended.
HoldsLoop(t) ==
    /\ out[t].phase = "queried"
    /\ ~SuspendsAfterQuery(req[t].action, Cardinality(out[t].res.cands))

\* The event loop can run task t.
LoopFree(t) == \A u \in Tasks \ {t} : ~HoldsLoop(u)

\* create and list: handle_text from its entry to the await of the reply
FlightBranch(d, n, r) ==
    IF r.action = "create" THEN CreateResults(d, n, r) ELSE ListResults(d, n, r)

\* the update branches: what the branch does when it is not interrupted
FlightUpdateBranch(d, n, r) ==
    IF r.action = "update_location" THEN UpdateLocationResults(d, n, r)
    ELSE UpdateSummaryResults(d, n, r)

\* A create or list message: the handler runs up to the await of its reply.
FlightStart(t) ==
    /\ out[t].phase = "idle" /\ LoopFree(t)
    /\ \E r \in FlightCreateReqs \cup FlightListReqs, n \in Nows :
          /\ r.action = "create" => Len(db) < MaxMeetings
          /\ \E x \in FlightBranch(db, n, r) :
                /\ db' = x.db
                /\ out' = [out EXCEPT ![t] = Flight("awaiting", x.out, <<>>)]
                /\ req' = [req EXCEPT ![t] = r]
                /\ now' = n

\* An update message: the handler runs up to the return of smart_get_meetings;
\* with exactly one row it has the UPDATE still to do, otherwise it awaits its
\* reply.
FlightQuery(t) ==
    /\ out[t].phase = "idle" /\ LoopFree(t)
    /\ \E r \in FlightUpdateReqs, n \in Nows :
          \E x \in FlightUpdateBranch(db, n, r) :
             /\ out' = [out EXCEPT ![t] =
                           IF x.out.reply = "updated"
                           THEN Flight("queried", x.out, db)
                           ELSE Flight("awaiting", x.out, <<>>)]
             /\ req' = [req EXCEPT ![t] = r]
             /\ now' = n
             /\ db' = db

\* The UPDATE of the task, with the title and start time it unpacked from the
\* row its query returned; then it awaits its reply.
FlightApply(t) ==
    /\ out[t].phase = "queried" /\ LoopFree(t)
    /\ db' = IF req[t].action = "update_location"
             THEN update_meeting_location(db, req[t].user,
                                          out[t].seen[out[t].res.row].summary,
                                          out[t].seen[out[t].res.row].start_time,
                                          req[t].location.val)
             ELSE SetSummary(db, req[t].user,
                             out[t].seen[out[t].res.row].summary,
                             out[t].seen[out[t].res.row].start_time,
                             req[t].new_summary.val)
    /\ out' = [out EXCEPT ![t] = Flight("awaiting", out[t].res, <<>>)]
    /\ UNCHANGED <<req, now>>

\* The reply is sent and the handler returns.
FlightDeliver(t) ==
    /\ out[t].phase = "awaiting" /\ LoopFree(t)
    /\ out' = [out EXCEPT ![t] = NotStarted]
    /\ req' = [req EXCEPT ![t] = NoIntent(1)]
    /\ UNCHANGED <<db, now>>

InitFlight ==
    /\ db = <<>>
    /\ now \in Nows
    /\ req = [t \in Tasks |-> NoIntent(1)]
    /\ out = [t \in Tasks |-> NotStarted]

NextFlight ==
    \E t \in Tasks :
        \/ FlightStart(t)
        \/ FlightQuery(t)
        \/ FlightApply(t)
        \/ FlightDeliver(t)

SpecFlight == InitFlight /\ [][NextFlight]_vars

\* C13: with several requests of the owner in flight, while an update request
\* is between its candidate query (which returned exactly one row) and its
\* UPDATE, no other request executes a store operation (the other tasks only
\* have their replies delivered) and the table is the one the query read; so the
\* UPDATE finds the candidate under the (user_id, summary, start_time) it read
\* and gives it the new location, respectively the new title.
C13_NoStoreOperationBetweenQueryAndUpdate ==
    [][\A t \in Tasks :
          out[t].phase = "queried" =>
             /\ db = out[t].seen
             /\ \A u \in Tasks \ {t} : out'[u] # out[u] => out[u].phase = "awaiting"
             /\ (out'[t].phase # "queried" =>
                   /\ db[out[t].res.row].user_id = req[t].user
                   /\ db[out[t].res.row].summary = out[t].seen[out[t].res.row].summary
                   /\ db[out[t].res.row].start_time
                         = out[t].seen[out[t].res.row].start_time
                   /\ (req[t].action = "update_location"
                         => db'[out[t].res.row].location = req[t].location)
                   /\ (req[t].action = "update_summary"
                         => db'[out[t].res.row].summary = req[t].new_summary.val))
      ]_vars

\* An update request has applied its UPDATE while another request of the same
\* owner was in flight.
C13_Witness ==
    \E t, u \in Tasks :
        /\ t # u
        /\ out[t].phase = "awaiting" /\ out[t].res.reply = "updated"
        /\ out[u].phase = "awaiting" /\ req[u].user = req[t].user

=============================================================================
